---- MODULE Spec2Model ----
(***************************************************************************)
(* A model of KGrad: the dual and hyperdual number algebras (HDual.py),    *)
(* the elementary functions pow and exp (AFuncs.py), derivative extraction *)
(* (TDerivs.py) and the Taylor series constructor (EDiffeqs.py).           *)
(*                                                                         *)
(* Numbers are exact rationals <<n, d>> in lowest terms with d > 0; the    *)
(* IEEE values a numpy division by zero produces are the pairs with d = 0: *)
(* <<1,0>> = inf, <<-1,0>> = -inf, <<0,0>> = nan.  Rounding of float64 is  *)
(* not modelled; the dtype of every numpy array (int64, float64, object)   *)
(* is, because the code's arithmetic depends on it.  Sequences are         *)
(* 1-based: coefficient i of the code is value[i + 1] here.                *)
(***************************************************************************)
EXTENDS Integers, Sequences, FiniteSets, TLC

VARIABLES pc, op, args, res, warned, conjs, heap

vars == <<pc, op, args, res, warned, conjs, heap>>

-----------------------------------------------------------------------------
(* Bounds of the model *)

MaxDim == 3

MaxPow == 3

MaxInputs == 2

MaxOrder == 3

(* numpy.allclose's default absolute tolerance is 1/AtolDen = 1e-8 *)
AtolDen == 100000000

(* coefficients the operands are drawn from *)
Coefs == {-1, 0, 1, 2}

-----------------------------------------------------------------------------
(* Exact arithmetic of Python and numpy scalars *)

Abs(n) == IF n < 0 THEN -n ELSE n

Sgn(n) == IF n < 0 THEN -1 ELSE IF n > 0 THEN 1 ELSE 0

Max(m, n) == IF m >= n THEN m ELSE n

RECURSIVE GCD(_, _)
GCD(m, n) == IF n = 0 THEN m ELSE GCD(n, m % n)

Norm(n, d) ==
    IF d = 0 THEN <<Sgn(n), 0>>
    ELSE LET g == GCD(Abs(n), Abs(d))
             s == IF d < 0 THEN -1 ELSE 1
         IN  <<(s * n) \div g, (s * d) \div g>>

R(n) == <<n, 1>>

Zero == R(0)

One == R(1)

Inf == <<1, 0>>

NaN == <<0, 0>>

IsFinite(q) == q[2] # 0

RNeg(q) == <<-q[1], q[2]>>

RMul(p, q) == Norm(p[1] * q[1], p[2] * q[2])

RAdd(p, q) ==
    IF IsFinite(p) /\ IsFinite(q) THEN Norm(p[1] * q[2] + q[1] * p[2], p[2] * q[2])
    ELSE IF IsFinite(q) THEN p
    ELSE IF IsFinite(p) THEN q
    ELSE IF p = q THEN p ELSE NaN

(* numpy's true_divide: x/0 is inf, -inf or nan (with a RuntimeWarning), never an exception *)
NpDiv(p, q) == RMul(p, Norm(q[2], q[1]))

RECURSIVE RPow(_, _)
RPow(q, p) == IF p = 0 THEN One ELSE RMul(q, RPow(q, p - 1))

(* a value stored into an int64 array is truncated toward zero; float64 and object keep it *)
Cast(dt, q) ==
    IF dt = "int64" /\ IsFinite(q) THEN R(Sgn(q[1]) * (Abs(q[1]) \div q[2]))
    ELSE IF dt # "int64" THEN q
    ELSE CHOOSE x \in {} : TRUE

(* numpy.isclose(q, 0): |q| <= atol + rtol*0, false for inf and nan *)
AllClose0(q) == IsFinite(q) /\ Abs(q[1]) <= q[2] \div AtolDen

RECURSIVE factorial(_)
factorial(n) == IF n <= 0 THEN 1 ELSE n * factorial(n - 1)

comb(n, k) == factorial(n) \div (factorial(k) * factorial(n - k))

-----------------------------------------------------------------------------
(* Values: Python numbers, numpy scalars, hdual objects, raised exceptions *)

Py(q, fl) == [k |-> "py", fl |-> fl, v |-> q]

Np(q, dt) == [k |-> "np", fl |-> (dt = "float64"), v |-> q]

Raise(e) == [k |-> "raise", exc |-> e]

IsRaise(x) == x.k = "raise"

hdual(value, dt) == [k |-> "hdual", dt |-> dt, value |-> value]

IsHdual(x) == x.k \in {"hdual", "hdual_basis"}

dim(x) == Len(x.value)

(* x[i], a numpy scalar of the array's dtype *)
getitem(x, i) == Np(x.value[i + 1], x.dt)

(* dtype of scalar*array and of an array built from a scalar and array elements *)
Promote(dt, s) == IF dt = "object" THEN dt ELSE IF dt = "float64" \/ s.fl THEN "float64" ELSE "int64"

(* an is_real that looks at the order-1 coefficient only *)
hdual_is_real_order1(self) == dim(self) < 2 \/ AllClose0(self.value[2])

hdual_is_real(self) == \A i \in 2..dim(self) : AllClose0(self.value[i])

hdual_neg(self) == hdual([i \in 1..dim(self) |-> RNeg(self.value[i])], self.dt)

hdual_conj(self) ==
    IF dim(self) = 0 THEN Raise("IndexError")
    ELSE hdual([i \in 1..dim(self) |-> IF i = 1 THEN self.value[i] ELSE RNeg(self.value[i])], self.dt)

RECURSIVE MulRow(_, _, _, _, _)
MulRow(prod, self, other, j, k) ==
    IF k >= Max(dim(self) - j, dim(other)) THEN prod
    ELSE IF j + k >= Len(prod) \/ k >= dim(other) THEN prod
    ELSE MulRow([prod EXCEPT ![j + k + 1] =
                    Cast(self.dt, RAdd(@, RMul(RMul(R(comb(j + k, k)), self.value[j + 1]),
                                               other.value[k + 1])))],
                self, other, j, k + 1)

RECURSIVE MulRows(_, _, _, _)
MulRows(prod, self, other, j) ==
    IF j >= dim(self) THEN prod
    ELSE MulRows(MulRow(prod, self, other, j, 0), self, other, j + 1)

hdual_mul(self, other) ==
    IF IsHdual(other)
    THEN hdual(MulRows([i \in 1..Max(dim(self), dim(other)) |-> Zero], self, other, 0), self.dt)
    ELSE hdual([i \in 1..dim(self) |-> RMul(other.v, self.value[i])], Promote(self.dt, other))

hdual_rmul(self, other) == hdual_mul(self, other)


(* hdual.__add__: the shorter array is added in place into a copy of the longer one *)
hdual_add(self, other) ==
    IF IsHdual(other) THEN
        LET lo == IF dim(self) <= dim(other) THEN self ELSE other
            c  == IF dim(self) <= dim(other) THEN other ELSE self
        IN  IF c.dt = "int64" /\ lo.dt = "float64" THEN Raise("UFuncTypeError")
            ELSE hdual([i \in 1..dim(c) |-> IF i <= dim(lo) THEN RAdd(c.value[i], lo.value[i])
                                                            ELSE c.value[i]], c.dt)
    ELSE IF dim(self) = 0 THEN Raise("IndexError")
    ELSE hdual([i \in 1..dim(self) |-> IF i = 1 THEN RAdd(self.value[i], other.v) ELSE self.value[i]],
               Promote(self.dt, other))

hdual_radd(self, other) == hdual_add(self, other)

(* -other of hdual.__sub__, for an hdual or a plain number *)
Negated(other) == IF IsHdual(other) THEN hdual_neg(other) ELSE [other EXCEPT !.v = RNeg(@)]

hdual_sub(self, other) == hdual_add(self, Negated(other))

(* -d, for a difference d that may have raised *)
NegOf(d) == IF IsRaise(d) THEN d ELSE hdual_neg(d)

hdual_rsub(self, other) == NegOf(hdual_sub(self, other))

(* a division's outcome: the value returned or exception raised, whether warn() was called, *)
(* and how many times the divisor was multiplied by its conjugate                            *)
W(v, w, c) == [v |-> v, w |-> w, c |-> c]

RECURSIVE hdual_truediv_w(_, _)
RECURSIVE hdual_rtruediv_w(_, _)

RECURSIVE SumTo(_, _)
SumTo(l, n) == IF n = 0 THEN 0 ELSE l[n] + SumTo(l, n - 1)

(* the outcome r of a division that came after a warn() *)
Warned(r) == W(r.v, TRUE, r.c)

(* the outcome r of a division that came after a multiplication by a conjugate *)
Conjugated(r) == W(r.v, r.w, r.c + 1)

(* an object array of quotients q: the first exception raised building it, else the array *)
ObjectArray(q, bad) ==
    W(IF bad # {} THEN q[CHOOSE i \in bad : \A j \in bad : i <= j].v
      ELSE hdual([i \in 1..Len(q) |-> q[i].v], "object"),
      \E i \in 1..Len(q) : q[i].w,
      SumTo([i \in 1..Len(q) |-> q[i].c], Len(q)))

(* hdual(self.value/other), the except IndexError branch of hdual.__truediv__: numpy divides *)
(* by a scalar elementwise, and by an hdual object through the object's __rtruediv__        *)
ArrayDiv(self, other) ==
    IF ~IsHdual(other)
    THEN W(hdual([i \in 1..dim(self) |-> NpDiv(self.value[i], other.v)],
                 IF self.dt = "object" THEN "object" ELSE "float64"), FALSE, 0)
    ELSE ObjectArray([i \in 1..dim(self) |->
                         hdual_rtruediv_w(other, Py(self.value[i], self.dt = "float64"))],
                     {i \in 1..dim(self) :
                         IsRaise(hdual_rtruediv_w(other, Py(self.value[i], self.dt = "float64")).v)})

(* the handler's outcome e, after what the try block r did before it raised *)
Handled(e, r) == W(e.v, e.w \/ r.w, e.c + r.c)

(* try: r  except IndexError: hdual(self.value/other) *)
Catch(r, self, other) ==
    IF IsRaise(r.v) /\ r.v.exc = "IndexError" THEN Handled(ArrayDiv(self, other), r) ELSE r

(* a try block without the 0/0 branch *)
hdual_truediv_try_noshift(self, other) ==
    IF dim(self) = 0 THEN W(Raise("IndexError"), FALSE, 0)
    ELSE IF other.k = "py" THEN W(Raise("TypeError"), FALSE, 0)
    ELSE IF other.k = "np" \/ dim(other) = 0 THEN W(Raise("IndexError"), FALSE, 0)
    ELSE IF hdual_is_real(other) THEN hdual_truediv_w(self, getitem(other, 0))
    ELSE Conjugated(hdual_truediv_w(hdual_mul(self, hdual_conj(other)),
                                    hdual_mul(other, hdual_conj(other))))

(* the try block of hdual.__truediv__: self[0] and other[0] raise IndexError on an empty *)
(* array and on a numpy scalar, and other[0] raises TypeError on a Python number         *)
hdual_truediv_try(self, other) ==
    IF dim(self) = 0 THEN W(Raise("IndexError"), FALSE, 0)
    ELSE IF other.k = "py" THEN W(Raise("TypeError"), FALSE, 0)
    ELSE IF other.k = "np" \/ dim(other) = 0 THEN W(Raise("IndexError"), FALSE, 0)
    ELSE IF AllClose0(self.value[1]) /\ AllClose0(other.value[1])
    THEN Warned(hdual_truediv_w(hdual(Tail(self.value), self.dt),
                                hdual(Tail(other.value), other.dt)))
    ELSE IF hdual_is_real(other) THEN hdual_truediv_w(self, getitem(other, 0))
    ELSE Conjugated(hdual_truediv_w(hdual_mul(self, hdual_conj(other)),
                                    hdual_mul(other, hdual_conj(other))))

hdual_truediv_w(self, other) == Catch(hdual_truediv_try(self, other), self, other)

hdual_rtruediv_w(self, other) ==
    IF IsHdual(other) /\ dim(other) = dim(self) THEN hdual_truediv_w(other, self)
    ELSE IF dim(self) = 0 THEN W(Raise("IndexError"), FALSE, 0)
    ELSE Conjugated(hdual_truediv_w(IF IsHdual(other) THEN hdual_mul(other, hdual_conj(self))
                                    ELSE hdual_rmul(hdual_conj(self), other),
                                    hdual_mul(self, hdual_conj(self))))

hdual_truediv(self, other) == hdual_truediv_w(self, other).v

hdual_rtruediv(self, other) == hdual_rtruediv_w(self, other).v

-----------------------------------------------------------------------------
(* Python numbers: int and float arithmetic raises where numpy returns inf *)

PyDiv(p, q) == IF q = Zero THEN Raise("ZeroDivisionError") ELSE Py(NpDiv(p, q), TRUE)

(* x**p of a Python or numpy number x and an int p *)
PyPow(x, p) ==
    IF p >= 0 THEN Py(RPow(x.v, p), x.fl)
    ELSE IF x.v = Zero THEN Raise("ZeroDivisionError")
    ELSE Py(RPow(NpDiv(One, x.v), -p), TRUE)

(* class dual: re and im are the Python numbers the constructor was given *)
dual(re, im) == [k |-> "dual", re |-> re, im |-> im]

IsDual(x) == x.k = "dual"

dual_add(self, other) ==
    IF IsDual(other) THEN dual(RAdd(self.re, other.re), RAdd(self.im, other.im))
    ELSE dual(RAdd(self.re, other.v), self.im)

dual_radd(self, other) == dual_add(self, other)

dual_neg(self) == dual(RNeg(self.re), RNeg(self.im))

dual_sub(self, other) ==
    IF IsDual(other) THEN dual(RAdd(self.re, RNeg(other.re)), RAdd(self.im, RNeg(other.im)))
    ELSE dual(RAdd(self.re, RNeg(other.v)), self.im)

dual_rsub(self, other) == dual_neg(dual_sub(self, other))

dual_mul(self, other) ==
    IF IsDual(other)
    THEN dual(RMul(self.re, other.re), RAdd(RMul(self.im, other.re), RMul(self.re, other.im)))
    ELSE dual(RMul(self.re, other.v), RMul(self.im, other.v))

dual_rmul(self, other) == dual_mul(self, other)

dual_truediv(self, other) ==
    IF IsDual(other) THEN
        IF AllClose0(self.re) /\ AllClose0(other.re) THEN PyDiv(self.im, other.im)
        ELSE IF other.re = Zero THEN Raise("ZeroDivisionError")
        ELSE dual(NpDiv(self.re, other.re),
                  NpDiv(RAdd(RMul(self.im, other.re), RNeg(RMul(self.re, other.im))),
                        RMul(other.re, other.re)))
    ELSE IF other.v = Zero THEN Raise("ZeroDivisionError")
    ELSE dual(NpDiv(self.re, other.v), NpDiv(self.im, other.v))

dual_rtruediv(self, other) ==
    IF IsDual(other) THEN dual_truediv(other, self)
    ELSE IF self.re = Zero THEN Raise("ZeroDivisionError")
    ELSE dual(NpDiv(other.v, self.re),
              NpDiv(RMul(RNeg(other.v), self.im), RMul(self.re, self.re)))

-----------------------------------------------------------------------------
(* Python's dispatch of a binary operator on the left operand's type, then on *)
(* the right operand's reflected method; an exception in an operand propagates *)

Add(x, y) ==
    IF IsRaise(x) THEN x ELSE IF IsRaise(y) THEN y
    ELSE IF IsDual(x) THEN dual_add(x, y)
    ELSE IF IsHdual(x) THEN hdual_add(x, y)
    ELSE IF IsDual(y) THEN dual_radd(y, x)
    ELSE IF IsHdual(y) THEN hdual_radd(y, x)
    ELSE Py(RAdd(x.v, y.v), x.fl \/ y.fl)

Sub(x, y) ==
    IF IsRaise(x) THEN x ELSE IF IsRaise(y) THEN y
    ELSE IF IsDual(x) THEN dual_sub(x, y)
    ELSE IF IsHdual(x) THEN hdual_sub(x, y)
    ELSE IF IsDual(y) THEN dual_rsub(y, x)
    ELSE IF IsHdual(y) THEN hdual_rsub(y, x)
    ELSE Py(RAdd(x.v, RNeg(y.v)), x.fl \/ y.fl)

Mul(x, y) ==
    IF IsRaise(x) THEN x ELSE IF IsRaise(y) THEN y
    ELSE IF IsDual(x) THEN dual_mul(x, y)
    ELSE IF IsHdual(x) THEN hdual_mul(x, y)
    ELSE IF IsDual(y) THEN dual_rmul(y, x)
    ELSE IF IsHdual(y) THEN hdual_rmul(y, x)
    ELSE Py(RMul(x.v, y.v), x.fl \/ y.fl)

TrueDiv(x, y) ==
    IF IsRaise(x) THEN x ELSE IF IsRaise(y) THEN y
    ELSE IF IsDual(x) THEN dual_truediv(x, y)
    ELSE IF IsHdual(x) THEN hdual_truediv(x, y)
    ELSE IF IsDual(y) THEN dual_rtruediv(y, x)
    ELSE IF IsHdual(y) THEN hdual_rtruediv(y, x)
    ELSE PyDiv(x.v, y.v)


-----------------------------------------------------------------------------
(* class hdual_basis and the elementary functions of AFuncs.py *)

(* hdual_basis(index, dim, component): zeros of dtype type(component), component at index *)
hdual_basis(index, d, component) ==
    IF index >= d \/ index < -d THEN Raise("IndexError")
    ELSE [k |-> "hdual_basis", dt |-> IF component.fl THEN "float64" ELSE "int64",
          value |-> [i \in 1..d |-> IF i = index + 1 THEN component.v ELSE Zero],
          index |-> index, component |-> component]

(* np.prod([x]*p) for p >= 1: the product folded from the left with x.__mul__ *)
RECURSIVE ProdRepeat(_, _)
ProdRepeat(x, p) == IF p = 1 THEN x ELSE Mul(ProdRepeat(x, p - 1), x)

(* the closed form without its multinomial factor *)
basis_pow_coef_one(index, p) == One

(* math.factorial(p*x.index)/pow(math.factorial(x.index), p) *)
basis_pow_coef(index, p) ==
    NpDiv(R(factorial(p * index)), PyPow(Py(R(factorial(index)), FALSE), p).v)

pow(x, p) ==
    IF x.k = "hdual_basis" THEN
        IF x.index * p >= dim(x) THEN hdual_basis(0, dim(x), Py(Zero, FALSE))
        ELSE IF p * x.index < 0 THEN Raise("ValueError")
        ELSE IF p < 0 /\ x.component.v = Zero THEN Raise("ZeroDivisionError")
        ELSE hdual_basis(x.index * p, dim(x),
                         Py(RMul(basis_pow_coef(x.index, p), PyPow(x.component, p).v), TRUE))
    ELSE IF x.k = "hdual" THEN
        IF p = 0 THEN hdual([i \in 1..Max(dim(x), 1) |-> IF i = 1 THEN One ELSE Zero], "int64")
        ELSE IF p < 0 THEN Np(One, "float64")
        ELSE ProdRepeat(x, p)
    ELSE IF IsDual(x) THEN
        IF p - 1 < 0 /\ x.re = Zero THEN Raise("ZeroDivisionError")
        ELSE dual(PyPow(Py(x.re, FALSE), p).v,
                  RMul(RMul(x.im, R(p)), PyPow(Py(x.re, FALSE), p - 1).v))
    ELSE PyPow(x, p)

(* math.exp of a real: only e^0 = 1 is a rational *)
math_exp(x) == IF x.v = Zero THEN Py(One, TRUE) ELSE CHOOSE y \in {} : TRUE

(* np.sum and np.prod of a list of objects: a left fold with + and * *)
RECURSIVE np_sum(_)
np_sum(l) == IF Len(l) = 1 THEN l[1] ELSE Add(np_sum(SubSeq(l, 1, Len(l) - 1)), l[Len(l)])

RECURSIVE np_prod(_)
np_prod(l) == IF Len(l) = 1 THEN l[1] ELSE Mul(np_prod(SubSeq(l, 1, Len(l) - 1)), l[Len(l)])

(* whether evaluating a list's elements raised, and the first exception raised *)
HasRaise(l) == \E i \in 1..Len(l) : IsRaise(l[i])

FirstRaise(l) == l[CHOOSE i \in 1..Len(l) : IsRaise(l[i]) /\ \A j \in 1..(i - 1) : ~IsRaise(l[j])]

(* [pow(hdual_basis(i, x.dim, x[i]), j)/math.factorial(j) for j in range(floor(x.dim/i) + 1)] *)
exp_terms(x, i) ==
    [j1 \in 1..((dim(x) \div i) + 1) |->
        TrueDiv(pow(hdual_basis(i, dim(x), getitem(x, i)), j1 - 1), Py(R(factorial(j1 - 1)), FALSE))]

(* np.sum(l) and np.prod(l) of a list comprehension l, which raises what its first *)
(* raising element raised                                                          *)
SumOf(l) == IF HasRaise(l) THEN FirstRaise(l) ELSE np_sum(l)

ProdOf(l) == IF HasRaise(l) THEN FirstRaise(l) ELSE np_prod(l)

exp_sum(x, i) == SumOf(exp_terms(x, i))

exp_hdual(x) ==
    IF dim(x) = 0 THEN Raise("IndexError")
    ELSE ProdOf(<<math_exp(getitem(x, 0))>> \o [i \in 1..(dim(x) - 1) |-> exp_sum(x, i)])

(* a dual is an hdual of dim 2 to isinstance, so it takes the hdual branch as well *)
exp(x) ==
    IF IsHdual(x) \/ IsDual(x)
    THEN exp_hdual(IF IsDual(x) THEN hdual(<<x.re, x.im>>, "float64") ELSE x)
    ELSE math_exp(x)

-----------------------------------------------------------------------------
(* Derivative extraction (TDerivs.py) and tseries (EDiffeqs.py) *)

(* functions of one variable built from the overloaded operators and pow *)
Funcs1 == {"x*x", "x+1", "2*x", "x/2", "1/x", "x-1", "3-x", "x/x", "pow(x,0)", "pow(x,2)",
           "pow(x,3)", "pow(x,-1)"}

Const(n) == Py(R(n), FALSE)

apply1(f, x) ==
    CASE f = "x*x" -> Mul(x, x)
      [] f = "x+1" -> Add(x, Const(1))
      [] f = "2*x" -> Mul(Const(2), x)
      [] f = "x/2" -> TrueDiv(x, Const(2))
      [] f = "1/x" -> TrueDiv(Const(1), x)
      [] f = "x-1" -> Sub(x, Const(1))
      [] f = "3-x" -> Sub(Const(3), x)
      [] f = "x/x" -> TrueDiv(x, x)
      [] f = "pow(x,0)" -> pow(x, 0)
      [] f = "pow(x,2)" -> pow(x, 2)
      [] f = "pow(x,3)" -> pow(x, 3)
      [] f = "pow(x,-1)" -> pow(x, -1)

(* functions of several variables: the two of IOptimize.py, and a quotient *)
FuncsN == {"x*y", "pow(x,2)+pow(y,2)", "x/y"}

RECURSIVE applyN(_, _)
applyN(f, xs) ==
    LET n == Len(xs)
        front == SubSeq(xs, 1, n - 1)
    IN  CASE f = "x*y" -> IF n = 1 THEN xs[1] ELSE Mul(applyN(f, front), xs[n])
          [] f = "pow(x,2)+pow(y,2)" ->
                 IF n = 1 THEN pow(xs[1], 2) ELSE Add(applyN(f, front), pow(xs[n], 2))
          [] f = "x/y" -> TrueDiv(xs[1], xs[n])

(* r.im *)
im_of(r) == IF IsRaise(r) THEN r ELSE IF IsDual(r) THEN Py(r.im, TRUE) ELSE Raise("AttributeError")

oderiv1(f, x) == im_of(apply1(f, dual(x.v, One)))

(* hdual([x, 1] + [0 for i in range(n - 1)]) *)
oderivn_seed(x, n) ==
    hdual(<<x.v, One>> \o [i \in 1..(n - 1) |-> Zero], IF x.fl THEN "float64" ELSE "int64")

(* derivs.value if return_lower_derivs, else derivs[n] *)
oderivn_return(derivs, n, return_lower_derivs) ==
    IF IsRaise(derivs) THEN derivs
    ELSE IF return_lower_derivs
    THEN IF IsHdual(derivs) THEN [k |-> "ndarray", dt |-> derivs.dt, value |-> derivs.value]
         ELSE Raise("AttributeError")
    ELSE IF IsHdual(derivs)
    THEN IF n < dim(derivs) THEN getitem(derivs, n) ELSE Raise("IndexError")
    ELSE IF derivs.k = "np" THEN Raise("IndexError")
    ELSE Raise("TypeError")

oderivn(f, x, n, return_lower_derivs) ==
    oderivn_return(apply1(f, oderivn_seed(x, n)), n, return_lower_derivs)

(* self.coeffs = coeffs; self.center = center; self.num_terms = len(coeffs) *)
tseries_init(coeffs, center) ==
    IF IsRaise(coeffs) THEN coeffs
    ELSE [k |-> "tseries", coeffs |-> coeffs, center |-> center, num_terms |-> Len(coeffs.value)]

(* tseries.__init__ with a callable coeffs *)
tseries(coeffs, center, num_terms) ==
    tseries_init(oderivn(coeffs, center, num_terms - 1, TRUE), center)

(* A Python list is an address into the heap, a sequence of lists. *)
ListRef(a) == [k |-> "list", addr |-> a]

(* the outcome of a call that may write the heap *)
Out(ret, h) == [ret |-> ret, heap |-> h]

(* pderiv1 with x = inputs in place of x = inputs.copy() *)
pderiv1_alias(f, h, inputs, partial_index) ==
    IF partial_index >= Len(h[inputs.addr]) THEN Out(Raise("IndexError"), h)
    ELSE LET h2 == [h EXCEPT ![inputs.addr][partial_index + 1] =
                                 dual(h[inputs.addr][partial_index + 1].v, One)]
         IN  Out(im_of(applyN(f, h2[inputs.addr])), h2)

pderiv1(f, h, inputs, partial_index) ==
    LET h1 == Append(h, h[inputs.addr])
        x == ListRef(Len(h1))
    IN  IF partial_index >= Len(h[inputs.addr]) THEN Out(Raise("IndexError"), h1)
        ELSE LET h2 == [h1 EXCEPT ![x.addr][partial_index + 1] =
                                      dual(h[inputs.addr][partial_index + 1].v, One)]
             IN  Out(im_of(applyN(f, h2[x.addr])), h2)

PyList(items) == [k |-> "pylist", items |-> items]

(* [pderiv1(f, x, i) for i in range(len(inputs))], from index i on *)
RECURSIVE grad_loop(_, _, _, _, _)

(* the list of the partial o and of the partials rest that follow it *)
grad_cons(o, rest) ==
    IF IsRaise(rest.ret) THEN rest ELSE Out(PyList(<<o.ret>> \o rest.ret.items), rest.heap)

(* the comprehension from the outcome o of pderiv1(f, x, i) on *)
grad_from(f, o, x, i, n) ==
    IF IsRaise(o.ret) THEN o ELSE grad_cons(o, grad_loop(f, o.heap, x, i + 1, n))

grad_loop(f, h, x, i, n) ==
    IF i >= n THEN Out(PyList(<<>>), h) ELSE grad_from(f, pderiv1(f, h, x, i), x, i, n)

(* list(inputs) raises TypeError for a number; a TypeError raised by f on a list is caught too, *)
(* and f(dual(inputs, 1)) then lacks its other arguments                                       *)
grad_except(o) ==
    IF IsRaise(o.ret) /\ o.ret.exc = "TypeError" THEN Out(Raise("TypeError"), o.heap) ELSE o

grad(f, h, inputs) ==
    IF inputs.k = "list"
    THEN grad_except(grad_loop(f, Append(h, h[inputs.addr]), ListRef(Len(h) + 1), 0,
                               Len(h[inputs.addr])))
    ELSE Out(oderiv1(f, inputs), h)

-----------------------------------------------------------------------------
(* Inputs *)

Vectors(S, maxlen) == UNION {[1..n -> S] : n \in 1..maxlen}

IntCoefs == {R(c) : c \in Coefs}

FloatCoefs == {Zero, One, <<1, 2>>}

Tiny == <<1, AtolDen>>

HdualsInt == {hdual(v, "int64") : v \in Vectors(IntCoefs, MaxDim)}

HdualsFloat == {hdual(v, "float64") : v \in Vectors(FloatCoefs, MaxDim)}

(* float64 operands whose order-0 coefficient is within numpy's tolerance of zero *)
HdualsTiny == {hdual(<<Tiny>> \o v, "float64") : v \in Vectors(IntCoefs, MaxDim - 1)}

Scalars == {Py(Zero, FALSE), Py(R(2), FALSE), Py(Zero, TRUE), Py(<<1, 2>>, TRUE),
            Np(Zero, "int64"), Np(R(2), "int64"), Np(Zero, "float64"), Np(<<1, 2>>, "float64")}

Duals == {dual(re, im) : re \in IntCoefs, im \in IntCoefs}

Points == {Py(q, fl) : q \in IntCoefs, fl \in BOOLEAN}

Components == {Np(q, "int64") : q \in IntCoefs} \cup {Np(<<1, 2>>, "float64")}

InputLists == Vectors({Py(q, FALSE) : q \in IntCoefs}, MaxInputs)

-----------------------------------------------------------------------------
(* The state machine: a caller invokes one operation and receives its outcome *)

None == [k |-> "none"]

Init ==
    /\ pc = "idle"
    /\ op = "none"
    /\ args = <<>>
    /\ res = None
    /\ warned = FALSE
    /\ conjs = 0
    /\ heap = <<>>

Done(o, a, r) ==
    /\ pc' = "done"
    /\ op' = o
    /\ args' = a
    /\ res' = r

Return ==
    /\ pc \in {"done", "ready"}
    /\ pc' = "idle"
    /\ op' = "none"
    /\ args' = <<>>
    /\ res' = None
    /\ warned' = FALSE
    /\ conjs' = 0
    /\ heap' = <<>>

CallMul ==
    /\ pc = "idle"
    /\ \E a \in HdualsInt \cup HdualsFloat, b \in HdualsInt \cup HdualsFloat :
          Done("mul", <<a, b>>, hdual_mul(a, b))
    /\ UNCHANGED <<warned, conjs, heap>>

CallMulScalar ==
    /\ pc = "idle"
    /\ \E a \in HdualsInt \cup HdualsFloat, b \in Scalars :
          Done("mul", <<a, b>>, hdual_mul(a, b))
    /\ UNCHANGED <<warned, conjs, heap>>

CallDivOf(a, b) ==
    \E r \in {hdual_truediv_w(a, b)} :
        /\ Done("truediv", <<a, b>>, r.v)
        /\ warned' = r.w
        /\ conjs' = r.c

CallDiv ==
    /\ pc = "idle"
    /\ \E a \in HdualsInt, b \in HdualsInt : CallDivOf(a, b)
    /\ UNCHANGED heap

CallDivSelf ==
    /\ pc = "idle"
    /\ \E a \in HdualsInt \cup HdualsTiny : CallDivOf(a, a)
    /\ UNCHANGED heap

CallDivScalar ==
    /\ pc = "idle"
    /\ \E a \in HdualsInt, b \in Scalars : CallDivOf(a, b)
    /\ UNCHANGED heap

CallDualDiv ==
    /\ pc = "idle"
    /\ \E a \in Duals, b \in Duals \cup Scalars : Done("dual_truediv", <<a, b>>, dual_truediv(a, b))
    /\ UNCHANGED <<warned, conjs, heap>>

CallPowBasis ==
    /\ pc = "idle"
    /\ \E d \in 1..MaxDim, c \in Components, p \in 0..MaxPow :
          \E index \in 0..(d - 1) :
              Done("pow", <<hdual_basis(index, d, c), p>>, pow(hdual_basis(index, d, c), p))
    /\ UNCHANGED <<warned, conjs, heap>>

CallPowHdual ==
    /\ pc = "idle"
    /\ \E a \in HdualsInt, p \in 0..MaxPow : Done("pow", <<a, p>>, pow(a, p))
    /\ UNCHANGED <<warned, conjs, heap>>

(* exp(a)*exp(-a), for a with order-0 coefficient 0 *)
CallExp ==
    /\ pc = "idle"
    /\ \E a \in {h \in HdualsInt : h.value[1] = Zero} :
          Done("exp", <<a>>, Mul(exp(a), exp(hdual_neg(a))))
    /\ UNCHANGED <<warned, conjs, heap>>

CallOderiv1 ==
    /\ pc = "idle"
    /\ \E f \in Funcs1, x \in Points : Done("oderiv1", <<f, x>>, oderiv1(f, x))
    /\ UNCHANGED <<warned, conjs, heap>>

CallOderivn ==
    /\ pc = "idle"
    /\ \E f \in Funcs1, x \in Points, n \in 0..MaxOrder, rld \in BOOLEAN :
          Done("oderivn", <<f, x, n, rld>>, oderivn(f, x, n, rld))
    /\ UNCHANGED <<warned, conjs, heap>>

CallTseries ==
    /\ pc = "idle"
    /\ \E f \in Funcs1, center \in Points, num_terms \in 1..(MaxOrder + 1) :
          Done("tseries", <<f, center, num_terms>>, tseries(f, center, num_terms))
    /\ UNCHANGED <<warned, conjs, heap>>

(* the caller builds its input list, at address 1 *)
NewInputs ==
    /\ pc = "idle"
    /\ \E xs \in InputLists :
          /\ heap' = <<xs>>
          /\ args' = <<xs>>
    /\ pc' = "ready"
    /\ op' = "inputs"
    /\ UNCHANGED <<res, warned, conjs>>

CallPderiv1 ==
    /\ pc = "ready"
    /\ \E f \in FuncsN, partial_index \in 0..(MaxInputs - 1) :
          \E o \in {pderiv1(f, heap, ListRef(1), partial_index)} :
              /\ Done("pderiv1", <<heap[1], f, partial_index>>, o.ret)
              /\ heap' = o.heap
    /\ UNCHANGED <<warned, conjs>>

CallGrad ==
    /\ pc = "ready"
    /\ \E f \in FuncsN :
          \E o \in {grad(f, heap, ListRef(1))} :
              /\ Done("grad", <<heap[1], f>>, o.ret)
              /\ heap' = o.heap
    /\ UNCHANGED <<warned, conjs>>

CallGradScalar ==
    /\ pc = "idle"
    /\ \E f \in Funcs1, x \in Points : Done("grad_scalar", <<x, f>>, grad(f, heap, x).ret)
    /\ UNCHANGED <<warned, conjs, heap>>

NextMul == CallMul \/ CallMulScalar \/ Return

NextDiv == CallDiv \/ CallDivSelf \/ CallDivScalar \/ CallDualDiv \/ Return

NextFun == CallPowBasis \/ CallPowHdual \/ CallExp \/ Return

NextDeriv ==
    \/ CallOderiv1 \/ CallOderivn \/ CallTseries
    \/ NewInputs \/ CallPderiv1 \/ CallGrad \/ CallGradScalar \/ Return

Next == NextMul \/ NextDiv \/ NextFun \/ NextDeriv

SpecMul == Init /\ [][NextMul]_vars

SpecDiv == Init /\ [][NextDiv]_vars

SpecFun == Init /\ [][NextFun]_vars

SpecDeriv == Init /\ [][NextDeriv]_vars

Spec == Init /\ [][Next]_vars


-----------------------------------------------------------------------------
(* Vocabulary of the properties *)

(* coefficient i of x, zero beyond its dimension *)
Coef(x, i) == IF i < dim(x) THEN x.value[i + 1] ELSE Zero

(* the sum over k = k0..m of C(m,k) * a[m-k] * b[k] *)
RECURSIVE Leibniz(_, _, _, _)
Leibniz(a, b, m, k0) ==
    IF k0 > m THEN Zero
    ELSE RAdd(RMul(RMul(R(comb(m, k0)), Coef(a, m - k0)), Coef(b, k0)), Leibniz(a, b, m, k0 + 1))

Identity(d) == [i \in 1..d |-> IF i = 1 THEN One ELSE Zero]

IsIdentity(r, d) == IsHdual(r) /\ r.value = Identity(d)

IsFiniteHdual(r) == IsHdual(r) /\ r.dt # "object" /\ \A i \in 1..dim(r) : IsFinite(r.value[i])

Shift(x) == hdual(Tail(x.value), x.dt)

Padded(x, d) == [i \in 1..d |-> Coef(x, i - 1)]

Called(o) == pc = "done" /\ op = o

(* the order-0 (real) part of a dual, an hdual or a plain number *)
Lead(x) == IF IsDual(x) THEN x.re ELSE IF IsHdual(x) THEN x.value[1] ELSE x.v

(* b multiplied by itself p times with hdual.__mul__, the identity for p = 0 *)
RECURSIVE Power(_, _)
Power(b, p) == IF p = 0 THEN Identity(dim(b)) ELSE hdual_mul(hdual(Power(b, p - 1), b.dt), b).value

-----------------------------------------------------------------------------
(* C1: a*b has dimension max(dim a, dim b) and its coefficient at every order m *)
(* is the sum over j+k=m of C(m,k)*a[j]*b[k], the shorter operand zero-padded.  *)
C1_MulCoefficients ==
    (Called("mul") /\ IsHdual(args[2])) =>
        /\ IsHdual(res)
        /\ dim(res) = Max(dim(args[1]), dim(args[2]))
        /\ \A m \in 0..(dim(res) - 1) : res.value[m + 1] = Leibniz(args[1], args[2], m, 0)

(* C2: exp(a)*exp(-a) is the multiplicative identity, for every hyperdual a. *)
C2_ExpInverse ==
    Called("exp") =>
        \/ IsIdentity(res, dim(args[1]))
        \/ dim(args[1]) = 1 /\ res.k \in {"py", "np"} /\ res.v = One

(* C3: a/a is the identity of a's dimension whenever a's order-0 coefficient is nonzero. *)
C3_SelfQuotient ==
    (Called("truediv") /\ IsHdual(args[2]) /\ args[1] = args[2] /\ Lead(args[1]) # Zero) =>
        IsIdentity(res, dim(args[1]))

C5_DivisionByZero ==
    (/\ pc = "done" /\ op \in {"truediv", "dual_truediv"}
     /\ (IsHdual(args[2]) => dim(args[2]) >= 1)
     /\ Lead(args[1]) # Zero /\ Lead(args[2]) = Zero) =>
        res = Raise("ZeroDivisionError")

(* C6: oderiv1(f, x) and oderivn(f, x, 1) both fail or both return the same value. *)
C6_DualHdualAgree ==
    Called("oderiv1") =>
        LET h == oderivn(args[1], args[2], 1, FALSE)
        IN  IF IsRaise(res) THEN IsRaise(h) ELSE ~IsRaise(h) /\ h.v = res.v

(* C7: oderivn(f, x, n) seeds a hyperdual of dimension exactly n+1, [x, 1, 0, ..., 0], *)
(* and tseries(f, center, num_terms=k) has exactly k coefficients.                     *)
C7_SeedDimension ==
    /\ Called("oderivn") =>
          /\ dim(oderivn_seed(args[2], args[3])) = args[3] + 1
          /\ Coef(oderivn_seed(args[2], args[3]), 0) = args[2].v
    /\ (Called("tseries") /\ args[1] = "x*x") => res.num_terms = args[3]


(* the partial derivative of f at xs with respect to argument i (from 1), by calculus *)
Partial(f, xs, i) ==
    LET n == Len(xs)
        others == [j \in 1..n |-> IF j = i THEN One ELSE xs[j].v]
    IN  CASE f = "x*y" -> np_prod([j \in 1..n |-> Py(others[j], FALSE)]).v
          [] f = "pow(x,2)+pow(y,2)" -> RMul(R(2), xs[i].v)
          [] f = "x/y" ->
                 IF n = 1 THEN Zero
                 ELSE IF i = 1 THEN NpDiv(One, xs[n].v)
                 ELSE NpDiv(RNeg(xs[1].v), RMul(xs[n].v, xs[n].v))

(* C8: pderiv1 and grad leave the caller's input list as it was, whether they return or *)
(* raise, and grad returns one partial derivative per input, in input order.            *)
C8_InputsNotMutated ==
    (pc = "done" /\ op \in {"pderiv1", "grad"}) =>
        /\ heap[1] = args[1]
        /\ \A i \in 1..Len(heap[1]) : heap[1][i].k = "py"
        /\ (op = "grad" /\ ~IsRaise(res)) =>
              /\ Len(res.items) = Len(args[1])
              /\ \A i \in 1..Len(args[1]) : res.items[i].v = Partial(args[2], args[1], i)
        /\ (op = "pderiv1" /\ ~IsRaise(res)) => res.v = Partial(args[2], args[1], args[3] + 1)

C8_Witness ==
    /\ Called("grad")
    /\ args[2] = "pow(x,2)+pow(y,2)"
    /\ args[1] = <<Py(R(2), FALSE), Py(One, FALSE)>>
    /\ heap[1] = args[1]
    /\ res.items = <<Py(R(4), TRUE), Py(R(2), TRUE)>>

(* the division's first branch is neither the 0/0 shift nor the real-divisor case *)
ConjugateCase ==
    /\ Called("truediv") /\ IsHdual(args[2])
    /\ dim(args[1]) >= 1 /\ dim(args[2]) >= 1
    /\ ~(AllClose0(Lead(args[1])) /\ AllClose0(Lead(args[2])))
    /\ ~hdual_is_real(args[2])

C10_BasisPowClosedForm ==
    (Called("pow") /\ args[1].k = "hdual_basis") =>
        /\ IsHdual(res)
        /\ res.value = Power(args[1], args[2])
        /\ args[2] * args[1].index >= dim(args[1]) => \A i \in 1..dim(res) : res.value[i] = Zero

C10_Witness ==
    /\ Called("pow") /\ args[1].k = "hdual_basis"
    /\ args[1].index = 1 /\ args[1].component.v = R(2) /\ args[2] = 2 /\ dim(args[1]) = 3
    /\ res.value = <<Zero, Zero, R(8)>>

====
